---- MODULE Spec2Model ----
(***************************************************************************)
(* State-machine model of the manifold_rs binding shim                     *)
(* (src/thirdparty/manifold-rs/src/manifold_rs.{h,cpp}).                   *)
(*                                                                         *)
(* The heap is a map from typed addresses to objects.  A wrapper handle    *)
(* (manifold_rs::Manifold, manifold_rs::Mesh) is an object whose only      *)
(* field is the unique_ptr to its kernel object; kernel objects and the    *)
(* vectors returned by mesh_vertices / mesh_indices are objects of their   *)
(* own.  The caller owns the wrappers and the returned vectors.            *)
(***************************************************************************)
EXTENDS Integers, Sequences, FiniteSets, TLC

VARIABLES
    heap,        \* typed address -> object
    limit,       \* how many objects the caller keeps alive at once
    ndebug,      \* the build: TRUE when assert() is compiled out (NDEBUG)
    status,      \* "running" | "aborted" (assert failed) | "crashed"
    last,        \* the operation called last, and a note on what it acted on
    origin,      \* history: how the Mesh wrapper at an address was made
    source,      \* history: the Mesh a live returned vector was read from
    made,        \* history: what mesh_from_manifold returned for a Manifold
    oobRead      \* history: some read went past the end of an array

vars == <<heap, limit, ndebug, status, last, origin, source, made, oobRead>>

----------------------------------------------------------------------------
(* Bounds of the model.                                                    *)

\* caller-owned objects (wrappers and returned vectors) alive at once
MaxLive == 2

----------------------------------------------------------------------------
(* Values.                                                                 *)

Vec3(a, b, c) == [x |-> a, y |-> b, z |-> c]

\* ::manifold::Mesh : the three arrays the shim reads
KMesh(p, n, t) == [vertPos |-> p, vertNormal |-> n, triVerts |-> t]

\* a default-constructed ::manifold::Mesh; also the state std::vector's move
\* constructor leaves the source arrays in
EmptyMesh == KMesh(<<>>, <<>>, <<>>)

\* ::manifold::Manifold, by the way it was made
KSolid(k, d) == [kind |-> k, dims |-> d]
EmptySolid == KSolid("empty", <<>>)
MovedSolid == KSolid("moved", <<>>)

\* float(v) for an integer v with |v| < 2^25: 24 bits of significand, ties to even
ToFloat(v) ==
    LET a == IF v < 0 THEN -v ELSE v
        r == IF a <= 16777216 THEN a
             ELSE LET q == a \div 2
                      e == a % 2
                  IN  IF e = 0 THEN a
                      ELSE IF q % 2 = 0 THEN 2 * q ELSE 2 * (q + 1)
    IN  IF v < 0 THEN -r ELSE r

\* uint32_t(v): v modulo 2^32, computed on 16-bit halves
ToUint32(v) == ((v \div 65536) % 65536) * 65536 + (v % 65536)

----------------------------------------------------------------------------
(* The kernel (::manifold), as the shim uses it.                           *)

KernelSphere(radius) == KSolid("sphere", <<radius>>)

KernelCube(x_size, y_size, z_size) == KSolid("cube", <<x_size, y_size, z_size>>)

\* a sphere of radius r, triangulated as an octahedron
SphereMesh(r) ==
    KMesh(<< Vec3(r, 0, 0), Vec3(-r, 0, 0), Vec3(0, r, 0),
             Vec3(0, -r, 0), Vec3(0, 0, r), Vec3(0, 0, -r) >>,
          << Vec3(1, 0, 0), Vec3(-1, 0, 0), Vec3(0, 1, 0),
             Vec3(0, -1, 0), Vec3(0, 0, 1), Vec3(0, 0, -1) >>,
          << Vec3(0, 2, 4), Vec3(2, 1, 4), Vec3(1, 3, 4), Vec3(3, 0, 4),
             Vec3(2, 0, 5), Vec3(1, 2, 5), Vec3(3, 1, 5), Vec3(0, 3, 5) >>)

\* a box with one corner at the origin: 8 corners, 12 triangles
CubeMesh(sx, sy, sz) ==
    KMesh([i \in 1..8 |->
              Vec3(((i - 1) \div 4) * sx,
                   (((i - 1) \div 2) % 2) * sy,
                   ((i - 1) % 2) * sz)],
          [i \in 1..8 |->
              Vec3(2 * ((i - 1) \div 4) - 1,
                   2 * (((i - 1) \div 2) % 2) - 1,
                   2 * ((i - 1) % 2) - 1)],
          << Vec3(1, 0, 4), Vec3(2, 4, 0), Vec3(1, 3, 0), Vec3(3, 1, 5),
             Vec3(3, 2, 0), Vec3(3, 7, 2), Vec3(5, 4, 6), Vec3(5, 1, 4),
             Vec3(6, 4, 2), Vec3(7, 6, 2), Vec3(7, 3, 6), Vec3(7, 5, 3) >>)

\* ::manifold::Manifold::GetMesh() const, on a solid that is not moved-from
KernelGetMesh(solid) ==
    CASE solid.kind = "sphere" /\ solid.dims[1] > 0 -> SphereMesh(solid.dims[1])
      [] solid.kind = "cube" /\ \A i \in 1..3 : solid.dims[i] > 0 ->
             CubeMesh(solid.dims[1], solid.dims[2], solid.dims[3])
      [] OTHER -> EmptyMesh

----------------------------------------------------------------------------
(* Inputs.                                                                 *)

\* the radius given to sphere
Radii == {2}

\* the side lengths given to cube: pairwise different
CubeExtents == {<<1, 2, 3>>}

\* a kernel mesh value with np positions, nn normals and np triangles; every
\* component differs from every other, the indices need not be in range
MakeMesh(np, nn) ==
    KMesh([i \in 1..np |-> Vec3(10 * i + 1, 10 * i + 2, 10 * i + 3)],
          [i \in 1..nn |-> Vec3(10 * i + 4, 10 * i + 5, 10 * i + 6)],
          [j \in 1..np |-> Vec3(3 * j - 3, 3 * j - 1, 3 * j - 2)])

\* the kernel mesh values a caller hands to Mesh(::manifold::Mesh&&): as many
\* normals as positions, fewer normals, more normals
KernelMeshes == {MakeMesh(2, 2), MakeMesh(2, 1), MakeMesh(1, 2)}

\* what a read past the end of vertNormal may yield
Garbage == {Vec3(77, 78, 79), Vec3(87, 88, 89)}

Filenames == {"", "out.glb"}

----------------------------------------------------------------------------
(* The heap.                                                               *)

Types == {"Manifold", "kManifold", "Mesh", "kMesh", "vecf", "vecu"}
Owned == {"Manifold", "Mesh", "vecf", "vecu"}

\* heap addresses 1..MaxLive of each type; address 0 of a kernel type is the
\* caller's stack slot, where a temporary kernel value lives
Addr == {<<t, i>> : t \in Types, i \in 1..MaxLive}
            \cup {<<"kManifold", 0>>, <<"kMesh", 0>>}
NULL == <<"null", 0>>

\* the stack slot of a temporary of type t
Temp(t) == <<t, 0>>

Free == [type |-> "free"]

Live(hp, a) == a \in Addr /\ hp[a].type # "free"
LiveOf(hp, t) == {a \in Addr : a[1] = t /\ hp[a].type = t}
FreeOf(hp, t) == {a \in Addr : a[1] = t /\ hp[a].type = "free"}

\* operator new: the lowest free address of the pool
New(hp, t) == <<t, CHOOSE i \in 1..MaxLive :
                      /\ hp[<<t, i>>].type = "free"
                      /\ \A j \in 1..(i - 1) : hp[<<t, j>>].type # "free">>

NumOwned(hp) == Cardinality({a \in Addr : a[1] \in Owned /\ hp[a].type # "free"})

\* the bounds leave room for one more object of type t
Room(hp, lim, t) == NumOwned(hp) < lim /\ FreeOf(hp, t) # {}

\* operator delete; releasing what is not live leaves the address corrupt
Corrupt == [type |-> "double_free"]
Delete(hp, a) == [hp EXCEPT ![a] = IF hp[a].type = "free" \/ hp[a] = Corrupt
                                   THEN Corrupt ELSE Free]

KObj(t, v) == [type |-> t, val |-> v]

WManifold(k) == [type |-> "Manifold", manifold |-> k]
WMesh(k) == [type |-> "Mesh", mesh |-> k]
VecF(d) == [type |-> "vecf", data |-> d]
VecU(d) == [type |-> "vecu", data |-> d]

\* what a call hands back: the heap after it and the address returned
Result(hp, a) == [heap |-> hp, addr |-> a]

----------------------------------------------------------------------------
(* Handle wrapper layer: manifold_rs::Manifold.                            *)

\* Manifold::Manifold() : manifold(std::make_unique<::manifold::Manifold>())
Manifold_ctor(hp, this) ==
    LET k == New(hp, "kManifold")
    IN  [hp EXCEPT ![k] = KObj("kManifold", EmptySolid),
                   ![this] = WManifold(k)]

\* a constructor that keeps the address of the value it was given instead of
\* moving the value into an object of its own
Manifold_ctor_move_alias(hp, this, src) ==
    [hp EXCEPT ![this] = WManifold(src)]

\* Manifold::Manifold(::manifold::Manifold &&manifold) :
\*     manifold(std::make_unique<::manifold::Manifold>(std::move(manifold)))
\* src is the address of the kernel value moved from
Manifold_ctor_move(hp, this, src) ==
    LET k == New(hp, "kManifold")
    IN  [hp EXCEPT ![k] = KObj("kManifold", hp[src].val),
                   ![src] = KObj("kManifold", MovedSolid),
                   ![this] = WManifold(k)]

\* a destructor of a wrapper that holds a raw pointer: nothing is released
Manifold_dtor_leak(hp, this) == hp

\* Manifold::~Manifold() {} : the unique_ptr member releases what it owns
Manifold_dtor(hp, this) ==
    IF hp[this].manifold = NULL THEN hp ELSE Delete(hp, hp[this].manifold)

\* std::unique_ptr<Manifold> sphere(double radius)
sphere(hp, radius) ==
    LET t    == Temp("kManifold")
        hp1  == [hp EXCEPT ![t] = KObj("kManifold", KernelSphere(radius))]
        this == New(hp1, "Manifold")
        hp2  == Manifold_ctor_move(hp1, this, t)
    IN  Result(Delete(hp2, t), this)

\* std::unique_ptr<Manifold> cube(double x_size, double y_size, double z_size)
cube(hp, x_size, y_size, z_size) ==
    LET t    == Temp("kManifold")
        hp1  == [hp EXCEPT ![t] = KObj("kManifold", KernelCube(x_size, y_size, z_size))]
        this == New(hp1, "Manifold")
        hp2  == Manifold_ctor_move(hp1, this, t)
    IN  Result(Delete(hp2, t), this)

----------------------------------------------------------------------------
(* Handle wrapper layer: manifold_rs::Mesh.                                *)

\* Mesh::Mesh() : mesh(std::make_unique<::manifold::Mesh>())
Mesh_ctor(hp, this) ==
    LET k == New(hp, "kMesh")
    IN  [hp EXCEPT ![k] = KObj("kMesh", EmptyMesh),
                   ![this] = WMesh(k)]

\* Mesh::Mesh(::manifold::Mesh &&mesh) :
\*     mesh(std::make_unique<::manifold::Mesh>(std::move(mesh)))
Mesh_ctor_move(hp, this, src) ==
    LET k == New(hp, "kMesh")
    IN  [hp EXCEPT ![k] = KObj("kMesh", hp[src].val),
                   ![src] = KObj("kMesh", EmptyMesh),
                   ![this] = WMesh(k)]

\* Mesh::~Mesh() {}
Mesh_dtor(hp, this) ==
    IF hp[this].mesh = NULL THEN hp ELSE Delete(hp, hp[this].mesh)

\* a conversion that moves the kernel solid out of its argument
mesh_from_manifold_consuming(hp, manifold) ==
    LET t    == Temp("kMesh")
        k    == hp[manifold].manifold
        hp1  == [hp EXCEPT ![t] = KObj("kMesh", KernelGetMesh(hp[k].val)),
                           ![k] = KObj("kManifold", MovedSolid)]
        this == New(hp1, "Mesh")
        hp2  == Mesh_ctor_move(hp1, this, t)
    IN  Result(Delete(hp2, t), this)

\* std::unique_ptr<Mesh> mesh_from_manifold(const Manifold &manifold)
\* (the solid is not moved-from: GetMesh has a mesh to return)
mesh_from_manifold(hp, manifold) ==
    LET t    == Temp("kMesh")
        hp1  == [hp EXCEPT ![t] = KObj("kMesh", KernelGetMesh(hp[hp[manifold].manifold].val))]
        this == New(hp1, "Mesh")
        hp2  == Mesh_ctor_move(hp1, this, t)
    IN  Result(Delete(hp2, t), this)

----------------------------------------------------------------------------
(* Flat buffer extraction.                                                 *)

\* mesh.mesh->vertNormal[i] : past the end of the array the read is undefined
\* and yields whatever lies there
NormalAt(m, i, garbage) ==
    IF i < Len(m.vertNormal) THEN m.vertNormal[i + 1] ELSE garbage

\* a loop body that appends the normal before the position
PushVertex_NormalFirst(vertices, m, i, garbage) ==
    vertices \o << ToFloat(NormalAt(m, i, garbage).x),
                   ToFloat(NormalAt(m, i, garbage).y),
                   ToFloat(NormalAt(m, i, garbage).z),
                   ToFloat(m.vertPos[i + 1].x),
                   ToFloat(m.vertPos[i + 1].y),
                   ToFloat(m.vertPos[i + 1].z) >>

\* the body of the loop of mesh_vertices at index i: six push_back calls
PushVertex(vertices, m, i, garbage) ==
    vertices \o << ToFloat(m.vertPos[i + 1].x),
                   ToFloat(m.vertPos[i + 1].y),
                   ToFloat(m.vertPos[i + 1].z),
                   ToFloat(NormalAt(m, i, garbage).x),
                   ToFloat(NormalAt(m, i, garbage).y),
                   ToFloat(NormalAt(m, i, garbage).z) >>

\* for (size_t i = 0; i < mesh.mesh->vertPos.size(); i++) { ... }
\* loop state: the vector built so far, the iterations done, and whether an
\* index read past the end of vertNormal
RECURSIVE VerticesLoop(_, _, _, _, _)
VerticesLoop(m, i, vertices, oob, garbage) ==
    IF i < Len(m.vertPos)
    THEN VerticesLoop(m, i + 1, PushVertex(vertices, m, i, garbage),
                      oob \/ ~(i < Len(m.vertNormal)), garbage)
    ELSE [vertices |-> vertices, iters |-> i, oob |-> oob]

\* assert(mesh.mesh->vertPos.size() == mesh.mesh->vertNormal.size());
\* assert() expands to nothing when the build defines NDEBUG
AssertFails(m, nd) == ~nd /\ Len(m.vertPos) # Len(m.vertNormal)

\* std::unique_ptr<std::vector<float>> mesh_vertices(const Mesh &mesh)
\* ub: what the build does on an out-of-bounds read (crash, or read garbage)
mesh_vertices(hp, mesh, nd, ub) ==
    LET m == hp[hp[mesh].mesh].val
        l == VerticesLoop(m, 0, <<>>, FALSE, ub.read)
        v == New(hp, "vecf")
    IN  IF AssertFails(m, nd)
        THEN [heap |-> hp, addr |-> NULL, outcome |-> "aborted",
              val |-> <<>>, iters |-> 0, oob |-> FALSE]
        ELSE IF l.oob /\ ub.crash
        THEN [heap |-> hp, addr |-> NULL, outcome |-> "crashed",
              val |-> <<>>, iters |-> l.iters, oob |-> TRUE]
        ELSE [heap |-> [hp EXCEPT ![v] = VecF(l.vertices)], addr |-> v,
              outcome |-> "returned",
              val |-> l.vertices, iters |-> l.iters, oob |-> l.oob]

\* a loop body that appends one-based indices
PushTriangle_OneBased(indices, m, i) ==
    indices \o << ToUint32(m.triVerts[i + 1].x + 1),
                  ToUint32(m.triVerts[i + 1].y + 1),
                  ToUint32(m.triVerts[i + 1].z + 1) >>

\* the body of the loop of mesh_indices at index i: three push_back calls
PushTriangle(indices, m, i) ==
    indices \o << ToUint32(m.triVerts[i + 1].x),
                  ToUint32(m.triVerts[i + 1].y),
                  ToUint32(m.triVerts[i + 1].z) >>

\* a loop that appends the triangles last to first
RECURSIVE IndicesLoop_Backwards(_, _, _)
IndicesLoop_Backwards(m, i, indices) ==
    IF i < Len(m.triVerts)
    THEN IndicesLoop_Backwards(m, i + 1,
             << ToUint32(m.triVerts[i + 1].x),
                ToUint32(m.triVerts[i + 1].y),
                ToUint32(m.triVerts[i + 1].z) >> \o indices)
    ELSE indices

\* for (size_t i = 0; i < mesh.mesh->triVerts.size(); i++) { ... }
RECURSIVE IndicesLoop(_, _, _)
IndicesLoop(m, i, indices) ==
    IF i < Len(m.triVerts)
    THEN IndicesLoop(m, i + 1, PushTriangle(indices, m, i))
    ELSE indices

\* std::unique_ptr<std::vector<uint32_t>> mesh_indices(const Mesh &mesh)
mesh_indices(hp, mesh) ==
    LET m == hp[hp[mesh].mesh].val
        d == IndicesLoop(m, 0, <<>>)
        v == New(hp, "vecu")
    IN  [heap |-> [hp EXCEPT ![v] = VecU(d)], addr |-> v, val |-> d]

\* an export that takes the kernel mesh out of its argument
export_mesh_consuming(hp, filename, mesh) ==
    [hp EXCEPT ![hp[mesh].mesh] = KObj("kMesh", EmptyMesh)]

\* export_mesh(filename, mesh): declared by other versions of the shim, with
\* an empty body
export_mesh(hp, filename, mesh) == hp

---------------------------------------------------------------------------------------------------------------------------------------------------
(* The state machine: one action per operation a caller can perform.       *)

ManifoldAddrs == {a \in Addr : a[1] = "Manifold"}
MeshAddrs == {a \in Addr : a[1] = "Mesh"}
VecAddrs == {a \in Addr : a[1] \in {"vecf", "vecu"}}

\* what the build may do on an out-of-bounds read
UBOutcomes == {[crash |-> c, read |-> g] : c \in BOOLEAN, g \in Garbage}

\* made[s]: whether mesh_from_manifold(s) has returned since the caller last
\* changed s (not yet, once, again), and the mesh the latest call returned
NoCall == [calls |-> "none", mesh |-> EmptyMesh]
Returned(md, mesh) ==
    [calls |-> IF md.calls = "none" THEN "once" ELSE "again", mesh |-> mesh]

\* the vectors read from Mesh m no longer show what m holds
Forget(src, m) == [v \in DOMAIN src |-> IF src[v] = m THEN NULL ELSE src[v]]

Init ==
    /\ heap = [a \in Addr |-> Free]
    /\ limit = MaxLive
    /\ ndebug \in BOOLEAN
    /\ status = "running"
    /\ last = <<"none", "">>
    /\ origin = [a \in MeshAddrs |-> "none"]
    /\ source = [a \in VecAddrs |-> NULL]
    /\ made = [a \in ManifoldAddrs |-> NoCall]
    /\ oobRead = FALSE

\* std::make_unique<Manifold>()
NewManifold ==
    /\ status = "running" /\ Room(heap, limit, "Manifold")
    /\ heap' = Manifold_ctor(heap, New(heap, "Manifold"))
    /\ last' = <<"Manifold", "">>
    /\ UNCHANGED <<limit, ndebug, status, origin, source, made, oobRead>>

\* std::make_unique<Manifold>(std::move(*s.manifold)) : adoption of the kernel
\* value another handle owns
AdoptManifold(s) ==
    /\ status = "running" /\ Room(heap, limit, "Manifold")
    /\ s \in LiveOf(heap, "Manifold")
    /\ heap' = Manifold_ctor_move(heap, New(heap, "Manifold"), heap[s].manifold)
    /\ last' = <<"Manifold_move", heap[heap[s].manifold].val.kind>>
    /\ made' = [made EXCEPT ![s] = NoCall]
    /\ UNCHANGED <<limit, ndebug, status, origin, source, oobRead>>

Sphere(radius) ==
    /\ status = "running" /\ Room(heap, limit, "Manifold")
    /\ heap' = sphere(heap, radius).heap
    /\ last' = <<"sphere", "">>
    /\ UNCHANGED <<limit, ndebug, status, origin, source, made, oobRead>>

Cube(e) ==
    /\ status = "running" /\ Room(heap, limit, "Manifold")
    /\ heap' = cube(heap, e[1], e[2], e[3]).heap
    /\ last' = <<"cube", "">>
    /\ UNCHANGED <<limit, ndebug, status, origin, source, made, oobRead>>

\* the caller's unique_ptr<Manifold> goes out of scope: ~Manifold(), then the
\* wrapper's storage is returned
DestroyManifold(h) ==
    /\ status = "running"
    /\ h \in LiveOf(heap, "Manifold")
    /\ heap' = Delete(Manifold_dtor(heap, h), h)
    /\ last' = <<"~Manifold", heap[heap[h].manifold].val.kind>>
    /\ made' = [made EXCEPT ![h] = NoCall]
    /\ UNCHANGED <<limit, ndebug, status, origin, source, oobRead>>

\* std::make_unique<Mesh>()
NewMesh ==
    /\ status = "running" /\ Room(heap, limit, "Mesh")
    /\ LET this == New(heap, "Mesh")
       IN  /\ heap' = Mesh_ctor(heap, this)
           /\ origin' = [origin EXCEPT ![this] = "default"]
    /\ last' = <<"Mesh", "">>
    /\ UNCHANGED <<limit, ndebug, status, source, made, oobRead>>

\* std::make_unique<Mesh>(std::move(value)) for a kernel mesh value of the
\* caller's, which the caller then destroys
AdoptMesh(value) ==
    /\ status = "running" /\ Room(heap, limit, "Mesh")
    /\ LET t    == Temp("kMesh")
           hp1  == [heap EXCEPT ![t] = KObj("kMesh", value)]
           this == New(hp1, "Mesh")
       IN  /\ heap' = Delete(Mesh_ctor_move(hp1, this, t), t)
           /\ origin' = [origin EXCEPT ![this] = "adopted"]
    /\ last' = <<"Mesh_move", "">>
    /\ UNCHANGED <<limit, ndebug, status, source, made, oobRead>>

\* std::make_unique<Mesh>(std::move(*m.mesh)) : adoption of the kernel value
\* another handle owns
MoveMesh(m) ==
    /\ status = "running" /\ Room(heap, limit, "Mesh")
    /\ m \in LiveOf(heap, "Mesh")
    /\ LET this == New(heap, "Mesh")
       IN  /\ heap' = Mesh_ctor_move(heap, this, heap[m].mesh)
           /\ origin' = [origin EXCEPT ![this] = "adopted"]
    /\ last' = <<"Mesh_move", "">>
    /\ source' = Forget(source, m)
    /\ UNCHANGED <<limit, ndebug, status, made, oobRead>>

\* mesh_from_manifold(s); on a moved-from solid the kernel has nothing to
\* triangulate and the process dies
MeshFromManifold(s) ==
    /\ status = "running" /\ Room(heap, limit, "Mesh")
    /\ s \in LiveOf(heap, "Manifold")
    /\ IF heap[heap[s].manifold].val = MovedSolid
       THEN /\ status' = "crashed"
            /\ UNCHANGED <<heap, origin, made>>
       ELSE LET r == mesh_from_manifold(heap, s)
            IN  /\ heap' = r.heap
                /\ origin' = [origin EXCEPT ![r.addr] = "mesh_from_manifold"]
                /\ made' = [made EXCEPT
                               ![s] = Returned(@, r.heap[r.heap[r.addr].mesh].val)]
                /\ UNCHANGED status
    /\ last' = <<"mesh_from_manifold", "">>
    /\ UNCHANGED <<limit, ndebug, source, oobRead>>

DestroyMesh(h) ==
    /\ status = "running"
    /\ h \in LiveOf(heap, "Mesh")
    /\ heap' = Delete(Mesh_dtor(heap, h), h)
    /\ origin' = [origin EXCEPT ![h] = "none"]
    /\ source' = Forget(source, h)
    /\ last' = <<"~Mesh", "">>
    /\ UNCHANGED <<limit, ndebug, status, made, oobRead>>

MeshVertices(m, ub) ==
    /\ status = "running" /\ Room(heap, limit, "vecf")
    /\ m \in LiveOf(heap, "Mesh")
    /\ LET r == mesh_vertices(heap, m, ndebug, ub)
       IN  /\ heap' = r.heap
           /\ status' = IF r.outcome = "returned" THEN status ELSE r.outcome
           /\ source' = IF r.outcome = "returned"
                        THEN [source EXCEPT ![r.addr] = m] ELSE source
           /\ oobRead' = (oobRead \/ r.oob)
    /\ last' = <<"mesh_vertices",
                 IF Len(heap[heap[m].mesh].val.vertPos)
                        = Len(heap[heap[m].mesh].val.vertNormal)
                 THEN "" ELSE "mismatch">>
    /\ UNCHANGED <<limit, ndebug, origin, made>>

MeshIndices(m) ==
    /\ status = "running" /\ Room(heap, limit, "vecu")
    /\ m \in LiveOf(heap, "Mesh")
    /\ LET r == mesh_indices(heap, m)
       IN  /\ heap' = r.heap
           /\ source' = [source EXCEPT ![r.addr] = m]
    /\ last' = <<"mesh_indices", "">>
    /\ UNCHANGED <<limit, ndebug, status, origin, made, oobRead>>

ExportMesh(filename, m) ==
    /\ status = "running"
    /\ m \in LiveOf(heap, "Mesh")
    /\ heap' = export_mesh(heap, filename, m)
    /\ last' = <<"export_mesh", "">>
    /\ UNCHANGED <<limit, ndebug, status, origin, source, made, oobRead>>

\* the caller lets go of a vector it was handed
DropVector(v) ==
    /\ status = "running"
    /\ v \in LiveOf(heap, "vecf") \cup LiveOf(heap, "vecu")
    /\ heap' = Delete(heap, v)
    /\ source' = [source EXCEPT ![v] = NULL]
    /\ last' = <<"~vector", "">>
    /\ UNCHANGED <<limit, ndebug, status, origin, made, oobRead>>

Next ==
    \/ NewManifold
    \/ \E s \in ManifoldAddrs : AdoptManifold(s)
    \/ \E radius \in Radii : Sphere(radius)
    \/ \E e \in CubeExtents : Cube(e)
    \/ \E h \in ManifoldAddrs : DestroyManifold(h)
    \/ NewMesh
    \/ \E value \in KernelMeshes : AdoptMesh(value)
    \/ \E m \in MeshAddrs : MoveMesh(m)
    \/ \E s \in ManifoldAddrs : MeshFromManifold(s)
    \/ \E h \in MeshAddrs : DestroyMesh(h)
    \/ \E m \in MeshAddrs, ub \in UBOutcomes : MeshVertices(m, ub)
    \/ \E m \in MeshAddrs : MeshIndices(m)
    \/ \E filename \in Filenames, m \in MeshAddrs : ExportMesh(filename, m)
    \/ \E v \in VecAddrs : DropVector(v)

Spec == Init /\ [][Next]_vars

\* A caller that works on meshes alone and keeps one more object alive: a
\* Mesh together with two vectors read from it.
InitFlat ==
    /\ heap = [a \in Addr |-> Free]
    /\ limit = MaxLive + 1
    /\ ndebug \in BOOLEAN
    /\ status = "running"
    /\ last = <<"none", "">>
    /\ origin = [a \in MeshAddrs |-> "none"]
    /\ source = [a \in VecAddrs |-> NULL]
    /\ made = [a \in ManifoldAddrs |-> NoCall]
    /\ oobRead = FALSE

NextFlat ==
    \/ NewMesh
    \/ \E value \in KernelMeshes : AdoptMesh(value)
    \/ \E h \in MeshAddrs : DestroyMesh(h)
    \/ \E m \in MeshAddrs, ub \in UBOutcomes : MeshVertices(m, ub)
    \/ \E m \in MeshAddrs : MeshIndices(m)
    \/ \E v \in VecAddrs : DropVector(v)

SpecFlat == InitFlat /\ [][NextFlat]_vars

----------------------------------------------------------------------------
(* Properties.                                                             *)

KManifoldAddrs == {a \in Addr : a[1] = "kManifold"}
KMeshAddrs == {a \in Addr : a[1] = "kMesh"}

\* the kernel mesh the live Mesh wrapper m owns
MeshOf(m) == heap[heap[m].mesh].val

\* the vectors returned for a Mesh that still is as it was read
VerticesRead == {v \in LiveOf(heap, "vecf") : source[v] # NULL}
IndicesRead == {v \in LiveOf(heap, "vecu") : source[v] # NULL}

\* C1: for a Mesh with as many normals as positions (n), mesh_vertices returns
\* 6*n values, and the six values of vertex i are its position x, y, z and
\* then its normal x, y, z
C1_VerticesInterleaved ==
    \A v \in VerticesRead :
        LET m == MeshOf(source[v])
            n == Len(m.vertPos)
            d == heap[v].data
        IN  Len(m.vertNormal) = n =>
                /\ Len(d) = 6 * n
                /\ \A i \in 0..(n - 1) :
                       /\ d[6 * i + 1] = m.vertPos[i + 1].x
                       /\ d[6 * i + 2] = m.vertPos[i + 1].y
                       /\ d[6 * i + 3] = m.vertPos[i + 1].z
                       /\ d[6 * i + 4] = m.vertNormal[i + 1].x
                       /\ d[6 * i + 5] = m.vertNormal[i + 1].y
                       /\ d[6 * i + 6] = m.vertNormal[i + 1].z

\* mesh_vertices has returned for a Mesh of two or more vertices
C1_Witness ==
    \E v \in VerticesRead :
        /\ Len(MeshOf(source[v]).vertPos) >= 2
        /\ Len(MeshOf(source[v]).vertNormal) = Len(MeshOf(source[v]).vertPos)
        /\ Len(heap[v].data) >= 12

\* C2: for a Mesh with t triangles, mesh_indices returns 3*t values, and the
\* three values of triangle i are its first, second and third index, the
\* triangles in their stored order
C2_IndicesInStoredOrder ==
    \A v \in IndicesRead :
        LET m == MeshOf(source[v])
            t == Len(m.triVerts)
            d == heap[v].data
        IN  /\ Len(d) = 3 * t
            /\ \A i \in 0..(t - 1) :
                   /\ d[3 * i + 1] = m.triVerts[i + 1].x
                   /\ d[3 * i + 2] = m.triVerts[i + 1].y
                   /\ d[3 * i + 3] = m.triVerts[i + 1].z

\* mesh_indices has returned for a Mesh of two or more triangles whose
\* triangles are not symmetric in their indices
C2_Witness ==
    \E v \in IndicesRead :
        /\ Len(MeshOf(source[v]).triVerts) >= 2
        /\ MeshOf(source[v]).triVerts[1].y # MeshOf(source[v]).triVerts[1].z

\* C3: a call of mesh_vertices on a Mesh whose position count differs from
\* its normal count ends in the failed assertion, and returns no vector
C3_MismatchIsFatal ==
    /\ last = <<"mesh_vertices", "mismatch">> => status = "aborted"
    /\ \A v \in VerticesRead :
           Len(MeshOf(source[v]).vertPos) = Len(MeshOf(source[v]).vertNormal)

\* C10: no run of mesh_vertices reads vertPos or vertNormal past its end, and
\* its loop ends after as many iterations as the Mesh has positions
C10_ReadsInBounds ==
    /\ ~oobRead
    /\ \A m \in LiveOf(heap, "Mesh"), g \in Garbage :
           VerticesLoop(MeshOf(m), 0, <<>>, FALSE, g).iters = Len(MeshOf(m).vertPos)

\* C4: for a Mesh made by mesh_from_manifold, every value mesh_indices
\* returns is below the vertex count, which is a sixth of the length of what
\* mesh_vertices returns
C4_IndicesBelowVertexCount ==
    \A v \in IndicesRead :
        origin[source[v]] = "mesh_from_manifold" =>
            LET m == MeshOf(source[v])
                g == CHOOSE x \in Garbage : TRUE
                vertices == VerticesLoop(m, 0, <<>>, FALSE, g).vertices
            IN  /\ Len(vertices) = 6 * Len(m.vertPos)
                /\ \A i \in 1..Len(heap[v].data) :
                       6 * heap[v].data[i] < Len(vertices)

\* mesh_indices has returned the triangles of a Mesh made from a solid
C4_Witness ==
    \E v \in IndicesRead :
        /\ origin[source[v]] = "mesh_from_manifold"
        /\ Len(heap[v].data) >= 3

\* C5: every live Manifold or Mesh wrapper owns one live kernel object on the
\* heap, of its kind, and no two wrappers own the same one
C5_ExclusiveOwnership ==
    /\ \A h \in LiveOf(heap, "Manifold") :
           /\ heap[h].manifold \in KManifoldAddrs \ {Temp("kManifold")}
           /\ heap[heap[h].manifold].type = "kManifold"
    /\ \A h \in LiveOf(heap, "Mesh") :
           /\ heap[h].mesh \in KMeshAddrs \ {Temp("kMesh")}
           /\ heap[heap[h].mesh].type = "kMesh"
    /\ \A h1, h2 \in LiveOf(heap, "Manifold") :
           h1 # h2 => heap[h1].manifold # heap[h2].manifold
    /\ \A h1, h2 \in LiveOf(heap, "Mesh") :
           h1 # h2 => heap[h1].mesh # heap[h2].mesh

\* a Manifold has adopted the sphere another live Manifold owned
C5_Witness ==
    /\ last = <<"Manifold_move", "sphere">>
    /\ Cardinality(LiveOf(heap, "Manifold")) = 2

\* no release hits an object that is not live
ReleasedOnce == \A a \in Addr : heap[a] # Corrupt

\* every live kernel object is owned by exactly one live wrapper
NoLeak ==
    /\ \A k \in KManifoldAddrs :
           heap[k].type # "free" =>
               Cardinality({h \in LiveOf(heap, "Manifold") : heap[h].manifold = k}) = 1
    /\ \A k \in KMeshAddrs :
           heap[k].type # "free" =>
               Cardinality({h \in LiveOf(heap, "Mesh") : heap[h].mesh = k}) = 1

\* the step that destroys a wrapper releases the kernel object it owned, which
\* was live, and the program runs on
DestroyReleases ==
    /\ \A h \in ManifoldAddrs :
           heap[h].type = "Manifold" /\ heap'[h].type = "free" =>
               /\ heap[heap[h].manifold].type = "kManifold"
               /\ heap'[heap[h].manifold].type = "free"
               /\ status' = "running"
    /\ \A h \in MeshAddrs :
           heap[h].type = "Mesh" /\ heap'[h].type = "free" =>
               /\ heap[heap[h].mesh].type = "kMesh"
               /\ heap'[heap[h].mesh].type = "free"
               /\ status' = "running"

\* C6: destroying a wrapper releases its kernel object exactly once: nothing is
\* released twice, nothing a destroyed wrapper owned stays live, and a wrapper
\* whose kernel object is empty or moved-from is destroyed like any other
C6_ReleasedExactlyOnce ==
    [](ReleasedOnce /\ NoLeak) /\ [][DestroyReleases]_vars

\* a Manifold whose kernel object was moved-from has been destroyed
C6_Witness ==
    /\ last = <<"~Manifold", "moved">>
    /\ status = "running"

\* a step of mesh_from_manifold that returns
ConversionReturns == last'[1] = "mesh_from_manifold" /\ status' = "running"

ProjectionReturns ==
    last'[1] \in {"mesh_vertices", "mesh_indices"} /\ status' = "running"

\* C8: mesh_vertices and mesh_indices leave every Mesh as it was, return a
\* vector at an address that was free and touch no other vector, and the
\* vectors returned for the same Mesh are equal
C8_ProjectionsReadOnly ==
    /\ [][ProjectionReturns =>
              /\ \A a \in MeshAddrs \cup KMeshAddrs : heap'[a] = heap[a]
              /\ \E v \in VecAddrs :
                     /\ heap[v].type = "free"
                     /\ heap'[v].type = v[1]
                     /\ source'[v] # NULL
                     /\ \A a \in Addr \ {v} : heap'[a] = heap[a]]_vars
    /\ [](\A v1, v2 \in VerticesRead \cup IndicesRead :
              v1[1] = v2[1] /\ source[v1] = source[v2] =>
                  heap[v1].data = heap[v2].data)

\* C9: export_mesh can be called, returns, and changes nothing
C9_ExportIsNoOp ==
    [][last'[1] = "export_mesh" =>
           /\ heap' = heap
           /\ status' = "running"
           /\ UNCHANGED <<origin, source, made, oobRead>>]_vars

\* export_mesh has been called on a Mesh that holds triangles
C9_Witness ==
    /\ last[1] = "export_mesh"
    /\ status = "running"
    /\ \E m \in LiveOf(heap, "Mesh") : Len(MeshOf(m).triVerts) > 0

====
